---- MODULE Spec2Model ----
(***************************************************************************)
(* A model of send_strava_goals_to_trmnl.py: the OAuth token lifecycle     *)
(* (TokenManager), the credentials file it persists to, configuration      *)
(* loading (Config.from_environment) and the top-level run                 *)
(* (send_strava_goals_to_trmnl).                                           *)
(*                                                                         *)
(* One process runs at a time.  A run walks through the statements of the  *)
(* script; pc names the statement about to execute.  The credentials file, *)
(* the clock and the provider outlive a run; everything else is local to   *)
(* it.  Time is counted in hours.                                          *)
(***************************************************************************)
EXTENDS Integers, Sequences, FiniteSets, TLC

\* ------------------------------------------------------------------ bounds

\* The clock stops advancing at MaxNow hours.
MaxNow == 14

\* The provider issues at most MaxIssued token records.
MaxIssued == 3

\* The values of the token dictionaries written and read back are the
\* strings and the integers numbered 0..MaxValue.
MaxValue == 1

\* One Strava object's client is read again until MaxEarlier invocations of
\* get_valid_token have returned.
MaxEarlier == 2

\* ----------------------------------------------------- program constants

\* Config.__init__: self.token_refresh_hours = 6
token_refresh_hours == 6

\* -------------------------------------------------------- python values

\* A Python str and a Python int, each identified by a number.
PyStr(n) == [ty |-> "str", v |-> n]
PyInt(n) == [ty |-> "int", v |-> n]

\* "No object": None in Python.
None == [none |-> TRUE]

\* The keys a token dictionary may carry, in the order a dictionary built
\* by the provider's response lists them.
FieldOrder == <<"access_token", "refresh_token", "expires_at">>

\* The token record the provider issues as its n-th, with an access token
\* and a refresh token of its own: the full shape carries expires_at, the
\* minimal one does not.
IssuedRecord(n, full) ==
    IF full
    THEN [access_token |-> PyStr(2 * n), refresh_token |-> PyStr(2 * n + 1),
          expires_at |-> PyInt(n)]
    ELSE [access_token |-> PyStr(2 * n), refresh_token |-> PyStr(2 * n + 1)]

\* ------------------------------------------------------------ json text

\* json.dump encodes a str as a JSON string literal and an int as a JSON
\* number literal.
JsonEncode(val) ==
    IF val.ty = "str" THEN [json |-> "string", text |-> val.v]
                      ELSE [json |-> "number", text |-> val.v]

\* Every literal is read as a str.
JsonDecode_all_str(lit) == PyStr(lit.text)

\* json.load decodes a literal back to the Python value.
JsonDecode(lit) ==
    IF lit.json = "string" THEN PyStr(lit.text) ELSE PyInt(lit.text)

\* The chunks of text a file holds.
OpenBrace  == [ch |-> "{"]
CloseBrace == [ch |-> "}"]
BadByte    == [ch |-> "\\xff"]
Pair(k, lit) == [ch |-> "pair", key |-> k, lit |-> lit]

RECURSIVE DumpFields(_, _)
DumpFields(token, i) ==
    IF i > Len(FieldOrder) THEN <<>>
    ELSE (IF FieldOrder[i] \in DOMAIN token
          THEN <<Pair(FieldOrder[i], JsonEncode(token[FieldOrder[i]]))>>
          ELSE <<>>) \o DumpFields(token, i + 1)

\* Of the fields of the token, only the access token is written.
Dump_access_only(token) ==
    <<OpenBrace>>
    \o (IF "access_token" \in DOMAIN token
        THEN <<Pair("access_token", JsonEncode(token["access_token"]))>>
        ELSE <<>>)
    \o <<CloseBrace>>

\* json.dump(token, f): the text written for a token dictionary.
Dump(token) == <<OpenBrace>> \o DumpFields(token, 1) \o <<CloseBrace>>

\* open(..., "r") decodes the bytes of the file; a byte that is not valid in
\* the encoding raises UnicodeDecodeError.
Decodable(text) == \A i \in 1..Len(text) : text[i] # BadByte

\* json.load accepts the text iff it is a complete JSON object.
WellFormed(text) ==
    /\ Len(text) >= 2
    /\ text[1] = OpenBrace
    /\ text[Len(text)] = CloseBrace
    /\ \A i \in 2..(Len(text) - 1) : text[i].ch = "pair"

\* json.load(f): the dictionary a well-formed text denotes.
Load(text) ==
    LET keys == {text[i].key : i \in 2..(Len(text) - 1)}
    IN  [k \in keys |->
            JsonDecode(text[CHOOSE i \in 2..(Len(text) - 1) : text[i].key = k].lit)]

\* ------------------------------------------------------------ environment

\* The value of a variable that is not in os.environ.
Unset == "<unset>"

\* os.environ.get(name) is truthy: the variable is set and not empty.
Truthy(env, name) == env[name] # Unset /\ env[name] # ""

\* The text of the STRAVA_CREDENTIALS variable, as the bootstrap writes it
\* to the credentials file.
EnvText(s) == IF s = "seed" THEN Dump(IssuedRecord(0, TRUE)) ELSE <<>>

\* The environments a run may start in.
Environments ==
    [CI : {Unset, "true"},
     STRAVA_CREDENTIALS : {Unset, "seed"},
     STRAVA_CLIENT_ID : {Unset, "123"},
     STRAVA_CLIENT_SECRET : {Unset, "s3cret"},
     TRMNL_PLUGIN_UUID : {Unset, "uuid"}]

\* ------------------------------------------------------------ exceptions

NoExc == [type |-> "none", args |-> <<>>]
Exc(type, args) == [type |-> type, args |-> args]

\* class ConfigError(StravaError), class AuthError(StravaError)
IsStravaError(e) == e.type \in {"StravaError", "ConfigError", "AuthError"}

\* ----------------------------------------------------------------- state

VARIABLES
    environ,    \* os.environ of the runs
    file,       \* the credentials file: [exists, text, mtime]
    now,        \* the wall clock, in hours
    issued,     \* how many token records the provider has issued
    pc,         \* the statement the running process is at
    config,     \* the Config of the run, or None
    client,     \* Strava._client: [access_token |-> ...] or None
    token,      \* the local variable token of get_valid_token, or None
    buffer,     \* the text written to the file object _save_token holds open
    exc,        \* the exception in flight
    exit,       \* how the run ended: [status, stderr, handled]
    variables,  \* the summary get_summary returned, or None
    posts,      \* webhook POSTs made by the run
    call        \* the current invocation of get_valid_token, as observed

vars == <<environ, file, now, issued, pc, config, client, token, buffer, exc,
          exit, variables, posts, call>>

NoFile == [exists |-> FALSE, text |-> <<>>, mtime |-> 0]

\* The records a credentials file may hold before the first run: one the
\* provider issued earlier, and one that carries no refresh token.
StoredRecords ==
    {IssuedRecord(0, TRUE), [access_token |-> PyStr(0)], [refresh_token |-> PyStr(1)]}

\* The texts a credentials file may hold before the first run: a record, an
\* empty file, a truncated record, bytes that do not decode.
StoredTexts ==
    {Dump(r) : r \in StoredRecords}
        \cup {<<>>, <<OpenBrace>>, <<BadByte>>}

NotRunning == [status |-> "none", stderr |-> "", handled |-> FALSE]

\* What an invocation of get_valid_token has done so far.
\*   phase     none, running, returned, raised or killed
\*   caller    the statement that read Strava.client
\*   entry     the credentials file when the invocation began
\*   load      what _load_token met: ok, unreadable, undecodable, malformed
\*   loaded    the record _load_token returned
\*   age       the hours since the file was written when _needs_refresh
\*             looked, or -1
\*   origin    where the token came from: loaded, oauth or refresh
\*   sent      the refresh token posted to the provider
\*   response  how the refresh endpoint answered
\*   provided  the record the provider handed out
\*   result    the record returned to the caller
\*   failed    the step that raised: oauth, load, age, argument, post, status,
\*             body or save
\*   prev      the record the invocation before this one returned, where one
\*             TokenManager is called again
\*   prevAt    the hour at which it returned it, or -1
\*   earlier   how many earlier invocations made by the same Strava object
\*             returned a record
NoCall ==
    [phase |-> "none", caller |-> "none", entry |-> NoFile, load |-> "none",
     loaded |-> None, age |-> -1, origin |-> "none", sent |-> None,
     response |-> "none", provided |-> None, result |-> None,
     failed |-> "none", prev |-> None, prevAt |-> -1, earlier |-> 0,
     refreshCalls |-> 0, exchangeCalls |-> 0, writes |-> 0]

Init ==
    /\ environ \in Environments
    /\ file \in {NoFile} \cup {[exists |-> TRUE, text |-> t, mtime |-> 0] : t \in StoredTexts}
    /\ now = 0
    /\ issued = 0
    /\ pc = "idle"
    /\ config = None
    /\ client = None
    /\ token = None
    /\ buffer = <<>>
    /\ exc = NoExc
    /\ exit = NotRunning
    /\ variables = None
    /\ posts = 0
    /\ call = NoCall

\* ------------------------------------------------------------ the run

\* raise e: the exception travels to the except clause of
\* send_strava_goals_to_trmnl.
Raise(e) ==
    /\ pc' = "except"
    /\ exc' = e

\* The scheduler starts the script.
Start ==
    /\ pc \in {"idle", "exited"}
    /\ pc' = "boot"
    /\ config' = None
    /\ client' = None
    /\ token' = None
    /\ buffer' = <<>>
    /\ exc' = NoExc
    /\ exit' = NotRunning
    /\ variables' = None
    /\ posts' = 0
    /\ call' = NoCall
    /\ UNCHANGED <<environ, file, now, issued>>

\* The variable's value is written only where there is no file yet.
bootstrap_file_if_absent(f, env, clock) ==
    IF Truthy(env, "CI") /\ Truthy(env, "STRAVA_CREDENTIALS") /\ ~f.exists
    THEN [exists |-> TRUE, text |-> EnvText(env["STRAVA_CREDENTIALS"]), mtime |-> clock]
    ELSE f

\* if os.environ.get("CI") and os.environ.get("STRAVA_CREDENTIALS"):
\*     with open(".strava-credentials", "w") as f: f.write(...)
bootstrap_file(f, env, clock) ==
    IF Truthy(env, "CI") /\ Truthy(env, "STRAVA_CREDENTIALS")
    THEN [exists |-> TRUE, text |-> EnvText(env["STRAVA_CREDENTIALS"]), mtime |-> clock]
    ELSE f

\* Module level: with CI and STRAVA_CREDENTIALS set, the credentials file is
\* overwritten with the variable's value.
Bootstrap ==
    /\ pc = "boot"
    /\ file' = bootstrap_file(file, environ, now)
    /\ pc' = "main"
    /\ UNCHANGED <<environ, now, issued, config, client, token, buffer, exc, exit,
                   variables, posts, call>>

required == <<"STRAVA_CLIENT_ID", "STRAVA_CLIENT_SECRET">>

\* The comprehension stops at the first variable that is missing.
Missing_first_only(env) ==
    IF env["STRAVA_CLIENT_ID"] = Unset THEN <<"STRAVA_CLIENT_ID">>
    ELSE IF env["STRAVA_CLIENT_SECRET"] = Unset THEN <<"STRAVA_CLIENT_SECRET">>
    ELSE <<>>

\* missing = [var for var in required if var not in os.environ]
Missing(env) == SelectSeq(required, LAMBDA var : env[var] = Unset)

\* The message of the ConfigError, line by line, each line word by word:
\* "Missing required environment variables: {', '.join(missing)}" and
\* "Please set in .env: STRAVA_CLIENT_ID, STRAVA_CLIENT_SECRET".
MissingMessage(missing) ==
    << <<"Missing required environment variables:">> \o missing,
       <<"Please set in .env:", "STRAVA_CLIENT_ID", "STRAVA_CLIENT_SECRET">> >>

\* Config.__init__
NewConfig(client_id, client_secret) ==
    [client_id |-> client_id, client_secret |-> client_secret,
     credentials_file |-> ".strava-credentials",
     token_refresh_hours |-> token_refresh_hours]

\* Config.from_environment, followed by Strava(config).
from_environment ==
    /\ pc = "main"
    /\ IF Missing(environ) # <<>>
       THEN /\ Raise(Exc("ConfigError", MissingMessage(Missing(environ))))
            /\ UNCHANGED config
       ELSE /\ config' = NewConfig(environ["STRAVA_CLIENT_ID"],
                                   environ["STRAVA_CLIENT_SECRET"])
            /\ pc' = "get_athlete_stats"
            /\ UNCHANGED exc
    /\ UNCHANGED <<environ, file, now, issued, client, token, buffer, exit,
                   variables, posts, call>>

\* The holder is taken to be unset whatever it holds.
client_is_None_always(holder) == TRUE

\* if self._client is None
client_is_None(holder) == holder = None

\* The property Strava.client, read by get_summary (for get_athlete_stats)
\* and by _get_weekly_runs (for get_activities): an unset holder calls
\* get_valid_token, a set one is returned as it is.
client_property ==
    /\ pc \in {"get_athlete_stats", "get_activities"}
    /\ IF client_is_None(client)
       THEN /\ pc' = "get_valid_token"
            /\ call' = [NoCall EXCEPT
                            !.phase = "running", !.entry = file, !.caller = pc,
                            !.earlier = call.earlier +
                                        (IF call.phase = "returned" THEN 1 ELSE 0)]
       ELSE /\ pc' = IF pc = "get_athlete_stats" THEN "stats_request"
                                                 ELSE "activities_request"
            /\ UNCHANGED call
    /\ UNCHANGED <<environ, file, now, issued, config, client, token, buffer, exc,
                   exit, variables, posts>>

\* self._client = Client(access_token=str(token["access_token"]))
client_set ==
    /\ pc = "returned"
    /\ IF "access_token" \in DOMAIN token
       THEN /\ client' = [access_token |-> token["access_token"]]
            /\ pc' = IF call.caller = "get_athlete_stats" THEN "stats_request"
                                                          ELSE "activities_request"
            /\ UNCHANGED exc
       ELSE /\ Raise(Exc("KeyError", << <<"access_token">> >>))
            /\ UNCHANGED client
    /\ UNCHANGED <<environ, file, now, issued, config, token, buffer, exit,
                   variables, posts, call>>

\* client.get_athlete_stats() and client.get_activities(): the request
\* succeeds, or the library raises an error of its own.  After the second,
\* get_summary returns the summary.
api_request ==
    /\ pc \in {"stats_request", "activities_request"}
    /\ \E ok \in BOOLEAN :
        IF ok
        THEN /\ pc' = IF pc = "stats_request" THEN "get_activities" ELSE "url"
             /\ variables' = IF pc = "stats_request" THEN variables
                                                      ELSE [merge_variables |-> TRUE]
             /\ UNCHANGED exc
        ELSE Raise(Exc("Fault", <<>>)) /\ UNCHANGED variables
    /\ UNCHANGED <<environ, file, now, issued, config, client, token, buffer, exit,
                   posts, call>>

\* url = f"...{os.environ["TRMNL_PLUGIN_UUID"]}"
build_url ==
    /\ pc = "url"
    /\ IF environ["TRMNL_PLUGIN_UUID"] = Unset
       THEN Raise(Exc("KeyError", << <<"TRMNL_PLUGIN_UUID">> >>))
       ELSE pc' = "post" /\ UNCHANGED exc
    /\ UNCHANGED <<environ, file, now, issued, config, client, token, buffer, exit,
                   variables, posts, call>>

\* response = requests.post(url, json=variables); print(response.json())
post_webhook ==
    /\ pc = "post"
    /\ posts' = posts + 1
    /\ \E json_ok \in BOOLEAN :
        IF json_ok
        THEN /\ pc' = "exited"
             /\ exit' = [status |-> "0", stderr |-> "", handled |-> FALSE]
             /\ UNCHANGED exc
        ELSE /\ Raise(Exc("JSONDecodeError", <<>>))
             /\ UNCHANGED exit
    /\ UNCHANGED <<environ, file, now, issued, config, client, token, buffer,
                   variables, call>>

\* except StravaError as e: print to stderr and sys.exit(1).  Any other
\* exception is not caught: the interpreter prints a traceback and exits 1.
except_clause ==
    /\ pc = "except"
    /\ pc' = "exited"
    /\ exit' = IF IsStravaError(exc)
               THEN [status |-> "1", stderr |-> "Error", handled |-> TRUE]
               ELSE [status |-> "1", stderr |-> "Traceback", handled |-> FALSE]
    /\ UNCHANGED <<environ, file, now, issued, config, client, token, buffer, exc,
                   variables, posts, call>>

\* The process is killed where it stands.
Crash ==
    /\ pc \notin {"idle", "exited"}
    /\ pc' = "exited"
    /\ exit' = [status |-> "killed", stderr |-> "", handled |-> FALSE]
    /\ call' = IF call.phase = "running" THEN [call EXCEPT !.phase = "killed"] ELSE call
    /\ UNCHANGED <<environ, file, now, issued, config, client, token, buffer, exc,
                   variables, posts>>

\* An hour passes.
Tick ==
    /\ now < MaxNow
    /\ now' = now + 1
    /\ UNCHANGED <<environ, file, issued, pc, config, client, token, buffer, exc,
                   exit, variables, posts, call>>

\* ------------------------------------------------------ get_valid_token

\* if not os.path.exists(self.config.credentials_file)
get_valid_token ==
    /\ pc = "get_valid_token"
    /\ pc' = IF ~file.exists THEN "oauth" ELSE "load"
    /\ UNCHANGED <<environ, file, now, issued, config, client, token, buffer, exc,
                   exit, variables, posts, call>>

\* The CI check left out.
oauth_refused_never(env) == FALSE

\* _perform_oauth_flow refuses to run when os.environ.get("CI") is truthy.
oauth_refused(env) == Truthy(env, "CI")

\* _perform_oauth_flow: outside CI the operator enters a code and it is
\* exchanged for a token: the library returns the token, returns nothing,
\* or raises an error of its own.
perform_oauth_flow ==
    /\ pc = "oauth"
    /\ IF oauth_refused(environ)
       THEN /\ Raise(Exc("AuthError", << <<"Running in CI environment">> >>))
            /\ call' = [call EXCEPT !.phase = "raised", !.failed = "oauth"]
            /\ UNCHANGED <<token, issued>>
       ELSE /\ issued < MaxIssued
            /\ \E outcome \in {"token", "nothing", "error"} :
                CASE outcome = "token" ->
                        /\ token' = IssuedRecord(issued + 1, TRUE)
                        /\ issued' = issued + 1
                        /\ call' = [call EXCEPT !.exchangeCalls = @ + 1,
                                                !.origin = "oauth",
                                                !.provided = IssuedRecord(issued + 1, TRUE)]
                        /\ pc' = "save_open"
                        /\ UNCHANGED exc
                  [] outcome = "nothing" ->
                        /\ Raise(Exc("AuthError", << <<"Failed to obtain access token">> >>))
                        /\ call' = [call EXCEPT !.exchangeCalls = @ + 1,
                                                !.phase = "raised",
                                                !.failed = "oauth"]
                        /\ UNCHANGED <<token, issued>>
                  [] outcome = "error" ->
                        /\ Raise(Exc("Fault", <<>>))
                        /\ call' = [call EXCEPT !.exchangeCalls = @ + 1,
                                                !.phase = "raised",
                                                !.failed = "oauth"]
                        /\ UNCHANGED <<token, issued>>
    /\ UNCHANGED <<environ, file, now, config, client, buffer, exit, variables, posts>>

\* open(path, "a") in place of "w": what the file holds is kept.
Truncated_append(f, clock) == [f EXCEPT !.exists = TRUE, !.mtime = clock]

\* open(path, "w"): the file is created or truncated.
Truncated(f, clock) == [exists |-> TRUE, text |-> <<>>, mtime |-> clock]

\* Leaving the with block flushes what was written, after what the file
\* holds, and closes the file.
Flushed(f, written, clock) == [f EXCEPT !.text = @ \o written, !.mtime = clock]

\* _save_token: with open(self.config.credentials_file, "w") as f
save_open ==
    /\ pc = "save_open"
    /\ \E ok \in BOOLEAN :
        IF ok
        THEN /\ file' = Truncated(file, now)
             /\ buffer' = <<>>
             /\ call' = [call EXCEPT !.writes = @ + 1]
             /\ pc' = "save_dump"
             /\ UNCHANGED exc
        ELSE /\ Raise(Exc("OSError", <<>>))
             /\ call' = [call EXCEPT !.phase = "raised", !.failed = "save"]
             /\ UNCHANGED <<file, buffer>>
    /\ UNCHANGED <<environ, now, issued, config, client, token, exit, variables, posts>>

\* _save_token: json.dump(token, f)
save_dump ==
    /\ pc = "save_dump"
    /\ buffer' = buffer \o Dump(token)
    /\ pc' = "save_close"
    /\ UNCHANGED <<environ, file, now, issued, config, client, token, exc, exit,
                   variables, posts, call>>

\* The return after the first save left out: get_valid_token goes on to
\* load the file it has just written.
after_save_no_return(origin) == IF origin = "oauth" THEN "load" ELSE "returned"

\* Where get_valid_token goes after self._save_token(token): in both
\* branches the next statement is return token.
after_save(origin) == "returned"

\* _save_token: the end of the with block; get_valid_token then returns
\* the token.  A flush that fails raises OSError and leaves the file as
\* open() left it.
save_close ==
    /\ pc = "save_close"
    /\ \E ok \in BOOLEAN :
        IF ok
        THEN /\ file' = Flushed(file, buffer, now)
             /\ pc' = after_save(call.origin)
             /\ call' = IF after_save(call.origin) = "returned"
                        THEN [call EXCEPT !.phase = "returned", !.result = token]
                        ELSE call
             /\ UNCHANGED exc
        ELSE /\ Raise(Exc("OSError", <<>>))
             /\ call' = [call EXCEPT !.phase = "raised", !.failed = "save"]
             /\ UNCHANGED file
    /\ UNCHANGED <<environ, now, issued, config, client, token, buffer, exit,
                   variables, posts>>

\* What _load_token meets when it opens and parses the file: open() fails,
\* the bytes do not decode, the text is not JSON, or a dictionary is read.
LoadOutcome(f, readable) ==
    IF ~readable THEN "unreadable"
    ELSE IF ~Decodable(f.text) THEN "undecodable"
    ELSE IF ~WellFormed(f.text) THEN "malformed"
    ELSE "ok"

\* except (IOError, json.JSONDecodeError) as e: raise AuthError(...)
LoadError(outcome) ==
    IF outcome \in {"unreadable", "malformed"}
    THEN Exc("AuthError", << <<"Failed to load credentials">> >>)
    ELSE Exc("UnicodeDecodeError", <<>>)

\* _load_token
load_token ==
    /\ pc = "load"
    /\ \E readable \in BOOLEAN :
        LET outcome == LoadOutcome(file, readable) IN
        IF outcome = "ok"
        THEN /\ token' = Load(file.text)
             /\ call' = [call EXCEPT !.load = "ok", !.loaded = Load(file.text),
                                     !.origin = "loaded"]
             /\ pc' = "needs_refresh"
             /\ UNCHANGED exc
        ELSE /\ Raise(LoadError(outcome))
             /\ call' = [call EXCEPT !.load = outcome, !.phase = "raised",
                                     !.failed = "load"]
             /\ UNCHANGED token
    /\ UNCHANGED <<environ, file, now, issued, config, client, buffer, exit,
                   variables, posts>>

\* The division by 3600.0 left out: the age comes out in seconds.
hours_since_refresh_seconds(clock, mtime) == (clock - mtime) * 3600

\* hours_since_refresh = (now - getmtime(file)) / 3600.0, with the clock
\* counted in hours.
hours_since_refresh(clock, mtime) == clock - mtime

\* The comparison made with < in place of >.
needs_refresh_value_inverted(hours, threshold) == hours < threshold

\* The comparison made with >= in place of >.
needs_refresh_value_at_threshold(hours, threshold) == hours >= threshold

\* return hours_since_refresh > self.config.token_refresh_hours
needs_refresh_value(hours, threshold) == hours > threshold

\* _needs_refresh, and the branch of get_valid_token on its result: refresh,
\* or return the loaded token.  os.path.getmtime may raise OSError.
needs_refresh ==
    /\ pc = "needs_refresh"
    /\ \E stat_ok \in BOOLEAN :
        IF stat_ok
        THEN LET hours == hours_since_refresh(now, file.mtime) IN
             IF needs_refresh_value(hours, config.token_refresh_hours)
             THEN /\ pc' = "refresh"
                  /\ call' = [call EXCEPT !.age = now - file.mtime]
                  /\ UNCHANGED exc
             ELSE /\ pc' = "returned"
                  /\ call' = [call EXCEPT !.age = now - file.mtime,
                                          !.phase = "returned",
                                          !.result = token]
                  /\ UNCHANGED exc
        ELSE /\ Raise(Exc("OSError", <<>>))
             /\ call' = [call EXCEPT !.phase = "raised", !.failed = "age"]
    /\ UNCHANGED <<environ, file, now, issued, config, client, token, buffer, exit,
                   variables, posts>>

\* The answers of the refresh endpoint: a success with a JSON body, a
\* failure status, a success whose body is not JSON, no answer at all.
Responses == {"ok", "not_ok", "not_json", "error"}

\* The status of the response is not looked at.
response_ok_unchecked(response) == TRUE

\* if not response.ok: raise AuthError("Failed to refresh token")
response_ok(response) == response # "not_ok"

\* The access token, where the record has one, is posted in place of the
\* refresh token.
refresh_argument_access(tok) ==
    IF "access_token" \in DOMAIN tok THEN tok["access_token"] ELSE tok["refresh_token"]

\* The argument of self._refresh_token(token["refresh_token"]).
refresh_argument(tok) == tok["refresh_token"]

\* token = self._refresh_token(token["refresh_token"]): requests.post
\* raises when there is no answer, a failure status raises AuthError,
\* response.json() raises when the body is not JSON.
refresh_token ==
    /\ pc = "refresh"
    /\ IF "refresh_token" \notin DOMAIN token
       THEN /\ Raise(Exc("KeyError", << <<"refresh_token">> >>))
            /\ call' = [call EXCEPT !.phase = "raised", !.failed = "argument"]
            /\ UNCHANGED <<token, issued>>
       ELSE /\ issued < MaxIssued
            /\ \E response \in Responses, full \in BOOLEAN :
                LET posted == [call EXCEPT !.refreshCalls = @ + 1,
                                           !.sent = refresh_argument(token),
                                           !.response = response]
                IN
                IF response = "error"
                THEN /\ Raise(Exc("ConnectionError", <<>>))
                     /\ call' = [posted EXCEPT !.phase = "raised", !.failed = "post"]
                     /\ UNCHANGED <<token, issued>>
                ELSE IF ~response_ok(response)
                THEN /\ Raise(Exc("AuthError", << <<"Failed to refresh token">> >>))
                     /\ call' = [posted EXCEPT !.phase = "raised", !.failed = "status"]
                     /\ UNCHANGED <<token, issued>>
                ELSE IF response = "not_json"
                THEN /\ Raise(Exc("JSONDecodeError", <<>>))
                     /\ call' = [posted EXCEPT !.phase = "raised", !.failed = "body"]
                     /\ UNCHANGED <<token, issued>>
                ELSE /\ token' = IssuedRecord(issued + 1, full)
                     /\ issued' = issued + 1
                     /\ call' = [posted EXCEPT !.origin = "refresh",
                                               !.provided = IssuedRecord(issued + 1, full)]
                     /\ pc' = "save_open"
                     /\ UNCHANGED exc
    /\ UNCHANGED <<environ, file, now, config, client, buffer, exit, variables, posts>>

\* ------------------------------------------------------------------ spec

Next ==
    \/ Start
    \/ Bootstrap
    \/ from_environment
    \/ client_property
    \/ client_set
    \/ api_request
    \/ build_url
    \/ post_webhook
    \/ except_clause
    \/ get_valid_token
    \/ perform_oauth_flow
    \/ save_open
    \/ save_dump
    \/ save_close
    \/ load_token
    \/ needs_refresh
    \/ refresh_token
    \/ Crash
    \/ Tick

Spec == Init /\ [][Next]_vars

\* ---------------------------------------------------------------- claims

\* The file holds exactly the record rec, and reads back as it.
Holds(f, rec) ==
    /\ f.exists
    /\ f.text = Dump(rec)
    /\ Decodable(f.text)
    /\ WellFormed(f.text)
    /\ Load(f.text) = rec

\* The invocation found a record older than the threshold, one that carries
\* a refresh token.
Stale ==
    /\ call.phase # "none"
    /\ call.load = "ok"
    /\ call.age > token_refresh_hours
    /\ "refresh_token" \in DOMAIN call.loaded

\* The invocation found a record younger than the threshold.
Fresh ==
    /\ call.phase # "none"
    /\ call.load = "ok"
    /\ call.age >= 0
    /\ call.age < token_refresh_hours

\* C1: an invocation of get_valid_token that finds a record older than the
\* refresh threshold and runs to its end has called the refresh endpoint
\* exactly once and the exchange never; when it returns, the file holds
\* exactly the record the provider returned, written once, and that record
\* is what it returns.
C1_StaleRecordRefreshedOnce ==
    /\ (Stale /\ call.phase \in {"returned", "raised"}) =>
            /\ call.refreshCalls = 1
            /\ call.exchangeCalls = 0
    /\ (Stale /\ call.phase = "returned") =>
            /\ call.response = "ok"
            /\ call.writes = 1
            /\ Holds(file, call.provided)
            /\ DOMAIN Load(file.text) = DOMAIN call.provided
            /\ call.result = call.provided

\* A stale record with an expires_at field was replaced by a record the
\* provider returned without one, and get_valid_token returned.
C1_Witness ==
    /\ Stale
    /\ call.phase = "returned"
    /\ "expires_at" \in DOMAIN call.loaded
    /\ "expires_at" \notin DOMAIN call.provided

\* C2: an invocation of get_valid_token that finds a record younger than
\* the refresh threshold returns the record it loaded, has made no call to
\* the provider (no exchange, no refresh) and no write, and the file is as
\* it was when the invocation began, text and modification time.
C2_FreshRecordReturnedUnchanged ==
    Fresh =>
        /\ call.phase = "returned"
        /\ call.result = call.loaded
        /\ call.result = Load(call.entry.text)
        /\ call.refreshCalls = 0
        /\ call.exchangeCalls = 0
        /\ call.writes = 0
        /\ file = call.entry

\* A record five hours old was returned.
C2_Witness ==
    /\ Fresh
    /\ call.age = token_refresh_hours - 1
    /\ call.phase = "returned"
    /\ pc = "returned"

\* C3: when the refresh endpoint answers with a failure status,
\* get_valid_token raises AuthError, nothing was written, and the file is
\* as it was when the invocation began: it still reads back as the record
\* that was loaded.
C3_RefreshFailureKeepsRecord ==
    (call.phase # "none" /\ call.response = "not_ok") =>
        /\ call.phase = "raised"
        /\ exc.type = "AuthError"
        /\ call.writes = 0
        /\ file = call.entry
        /\ Holds(file, call.loaded)

\* The refresh endpoint answered a stale record's refresh with a failure.
C3_Witness ==
    /\ Stale
    /\ call.response = "not_ok"
    /\ call.phase = "raised"
    /\ pc = "except"

\* C4: with no credentials file and CI set, get_valid_token does not
\* return: it ends by raising AuthError, having made no refresh call (and no
\* exchange), and no file has been created.
C4_NoRecordInCIFails ==
    (call.phase # "none" /\ ~call.entry.exists /\ Truthy(environ, "CI")) =>
        /\ call.phase # "returned"
        /\ call.phase = "raised" => exc.type = "AuthError"
        /\ call.refreshCalls = 0
        /\ call.exchangeCalls = 0
        /\ file = call.entry
        /\ pc \notin {"load", "needs_refresh", "refresh", "save_open", "save_dump",
                      "save_close"}

\* get_valid_token raised AuthError in CI with no credentials file.
C4_Witness ==
    /\ call.phase = "raised"
    /\ ~call.entry.exists
    /\ Truthy(environ, "CI")
    /\ exc.type = "AuthError"

\* C5: whenever get_valid_token has returned a record it obtained from the
\* authorization flow or from a refresh, the file holds that record.
C5_PersistedBeforeReturned ==
    (call.phase = "returned" /\ call.origin \in {"oauth", "refresh"}) =>
        /\ call.result = call.provided
        /\ Holds(file, call.result)

\* get_valid_token has just returned a record from the authorization flow.
C5_Witness ==
    /\ pc = "returned"
    /\ call.origin = "oauth"
    /\ call.result # None

\* C6: every failure of get_valid_token surfaces as AuthError, in
\* particular a failure to write the record, a failure to read the file's
\* age, a stale record without a refresh_token, and a refresh success whose
\* body is not JSON.
C6_EveryFailureIsAuthError ==
    (call.phase = "raised" /\ call.failed \in {"save", "age", "argument", "body"}) =>
        exc.type = "AuthError"

\* C7: from the moment get_valid_token has loaded a record, the file holds
\* either that complete record or the complete record the provider
\* returned, at every step, so also where a crash would stop it.
C7_StoreAlwaysOldOrNew ==
    (call.phase # "none" /\ call.load = "ok") =>
        \/ Holds(file, call.loaded)
        \/ call.provided # None /\ Holds(file, call.provided)

\* C8: when the credentials file exists but cannot be read, or does not
\* hold a JSON document, get_valid_token raises AuthError, has made no call
\* to the provider, and the file is as it was.
C8_CorruptStoreIsAuthError ==
    (call.phase # "none" /\ call.entry.exists
        /\ call.load \in {"unreadable", "undecodable", "malformed"}) =>
        /\ call.phase = "raised"
        /\ exc.type = "AuthError"
        /\ call.refreshCalls = 0
        /\ call.exchangeCalls = 0
        /\ call.writes = 0
        /\ file = call.entry

\* C9: a run in which from_environment or get_valid_token failed ends with
\* the error caught by the except clause, a message on stderr, exit status
\* 1 and no webhook POST; and a POST is made only after the config was
\* loaded, get_valid_token returned and the summary was built.
C9_FailuresCaughtAtTopLevel ==
    /\ (pc = "exited" /\ exit.status # "killed"
            /\ (exc.type = "ConfigError" \/ call.phase = "raised")) =>
            /\ exit.handled
            /\ exit.stderr = "Error"
            /\ exit.status = "1"
            /\ posts = 0
    /\ posts > 0 =>
            /\ config # None
            /\ call.phase = "returned"
            /\ variables # None

\* The required variables that are not in the environment.
Absent == {var \in {"STRAVA_CLIENT_ID", "STRAVA_CLIENT_SECRET"} : environ[var] = Unset}

\* The required variables a line of a message names.
NamedIn(line) ==
    {line[i] : i \in 1..Len(line)} \cap {"STRAVA_CLIENT_ID", "STRAVA_CLIENT_SECRET"}

\* The required variables a message names.
NamedInMessage(msg) == UNION {NamedIn(msg[i]) : i \in 1..Len(msg)}

\* from_environment has run, and the process was not killed before it did.
ConfigLoaded == pc \notin {"idle", "boot", "main", "exited", "except"}

\* C10, as stated: the ConfigError message names every absent variable and
\* no present one.
C10_MessageNamesOnlyAbsent ==
    exc.type = "ConfigError" => NamedInMessage(exc.args) = Absent

\* C10, amended: from_environment raises ConfigError exactly when a
\* required variable is absent; the first line of the message lists every
\* absent variable and no present one, the second line is the fixed hint
\* that names both; with both present the Config holds exactly the two
\* values; and the step changes neither the environment nor the file.
C10_FromEnvironment ==
    /\ [](/\ exc.type = "ConfigError" =>
                /\ Absent # {}
                /\ config = None
                /\ Len(exc.args) = 2
                /\ NamedIn(exc.args[1]) = Absent
                /\ Len(exc.args[1]) = 1 + Cardinality(Absent)
                /\ NamedIn(exc.args[2]) = {"STRAVA_CLIENT_ID", "STRAVA_CLIENT_SECRET"}
          /\ config # None =>
                /\ Absent = {}
                /\ config.client_id = environ["STRAVA_CLIENT_ID"]
                /\ config.client_secret = environ["STRAVA_CLIENT_SECRET"]
          /\ ConfigLoaded => config # None)
    /\ [][pc = "main" => (environ' = environ /\ file' = file)]_vars

\* from_environment raised ConfigError with both variables absent.
C10_Witness ==
    /\ pc = "except"
    /\ exc.type = "ConfigError"
    /\ Cardinality(Absent) = 2

\* ------------------------------------------------- writing and reading back

\* The token dictionaries (Dict[str, Any]) the exchange and the refresh
\* endpoint can hand to _save_token: any of the keys, each with a str or an
\* int.
TokenDicts ==
    LET keys == {FieldOrder[i] : i \in 1..Len(FieldOrder)}
        values == {PyStr(n) : n \in 0..MaxValue} \cup {PyInt(n) : n \in 0..MaxValue}
    IN  UNION {[D -> values] : D \in SUBSET keys}

\* A TokenManager is about to save a token dictionary, over no file or over
\* an earlier record.
RoundTripInit ==
    /\ environ \in {e \in Environments : \A var \in DOMAIN e : e[var] # Unset}
    /\ file \in {NoFile, [exists |-> TRUE, text |-> Dump(IssuedRecord(0, TRUE)), mtime |-> 0]}
    /\ now = 0
    /\ issued = 0
    /\ pc = "save_open"
    /\ config = NewConfig(environ["STRAVA_CLIENT_ID"], environ["STRAVA_CLIENT_SECRET"])
    /\ client = None
    /\ token \in TokenDicts
    /\ buffer = <<>>
    /\ exc = NoExc
    /\ exit = NotRunning
    /\ variables = None
    /\ posts = 0
    /\ call = [NoCall EXCEPT !.phase = "running", !.entry = file]

\* After _save_token(token) the same TokenManager calls _load_token().
RoundTripRead ==
    /\ pc = "returned"
    /\ pc' = "load"
    /\ UNCHANGED <<environ, file, now, issued, config, client, token, buffer, exc,
                   exit, variables, posts, call>>

RoundTripNext ==
    \/ save_open
    \/ save_dump
    \/ save_close
    \/ RoundTripRead
    \/ load_token

RoundTripSpec == RoundTripInit /\ [][RoundTripNext]_vars

\* C11: whatever token dictionary _save_token wrote, a _load_token that
\* follows and can open the file reads a dictionary with the same keys and,
\* under each key, a value of the same type and content.
C11_RoundTrip ==
    /\ call.load \in {"none", "ok", "unreadable"}
    /\ call.load = "ok" =>
            /\ DOMAIN call.loaded = DOMAIN call.result
            /\ \A k \in DOMAIN call.result :
                    /\ call.loaded[k].ty = call.result[k].ty
                    /\ call.loaded[k].v = call.result[k].v
            /\ token = call.result

\* A dictionary that holds a str and an int was written over an earlier
\* record and read back.
C11_Witness ==
    /\ call.load = "ok"
    /\ call.entry.exists
    /\ \E k \in DOMAIN call.result : call.result[k].ty = "int"
    /\ \E k \in DOMAIN call.result : call.result[k].ty = "str"

\* ------------------------------------------------------------- behaviour

\* _needs_refresh has looked at the age of the record that was loaded.
AgeKnown == call.phase # "none" /\ call.load = "ok" /\ call.age >= 0

\* get_valid_token is in, or has been through, the refresh branch.
RefreshBranch ==
    \/ pc = "refresh" /\ call.phase = "running"
    \/ call.failed \in {"argument", "post", "status", "body"}
    \/ call.origin = "refresh"

\* get_valid_token returned the loaded record without refreshing.
ReturnedLoaded == call.phase = "returned" /\ call.origin = "loaded"

\* C12: the threshold is 6 hours, and get_valid_token takes the refresh
\* branch exactly when the record's age is more than the threshold: at
\* 7 hours it does, and a finished invocation whose record carries a refresh
\* token has called the endpoint once; at 5 hours and at exactly 6 hours it
\* does not, calls nothing and returns the record it loaded, with the
\* original access token.
C12_RefreshIffOlderThanThreshold ==
    /\ config # None => config.token_refresh_hours = 6
    /\ AgeKnown =>
        /\ ReturnedLoaded <=> call.age <= token_refresh_hours
        /\ RefreshBranch => call.age > token_refresh_hours
        /\ call.refreshCalls > 0 => call.age > token_refresh_hours
        /\ (call.age > token_refresh_hours
                /\ call.phase \in {"returned", "raised"}
                /\ "refresh_token" \in DOMAIN call.loaded) => call.refreshCalls = 1
        /\ call.age <= token_refresh_hours =>
                /\ call.phase = "returned"
                /\ call.refreshCalls = 0
                /\ call.result = call.loaded
                /\ DOMAIN call.result = DOMAIN Load(call.entry.text)
                /\ "access_token" \in DOMAIN call.result =>
                        call.result["access_token"] = Load(call.entry.text)["access_token"]
    /\ (call.phase # "none" /\ ~AgeKnown) => ~RefreshBranch

\* A record exactly six hours old was returned without a refresh.
C12_Witness ==
    /\ AgeKnown
    /\ call.age = token_refresh_hours
    /\ call.phase = "returned"
    /\ call.origin = "loaded"

\* C13: in one invocation of get_valid_token, whatever its outcome, at
\* most one request goes to the provider (one exchange or one refresh, never
\* both) and the credentials file is opened for writing at most once.
C13_NoRetries ==
    /\ call.exchangeCalls + call.refreshCalls <= 1
    /\ call.writes <= 1

\* An invocation that made its refresh call and its write, and failed when
\* the file was closed.
C13_Witness ==
    /\ call.phase = "raised"
    /\ call.failed = "save"
    /\ call.refreshCalls = 1
    /\ call.writes = 1

\* The refresh token of the record the provider issued last before the
\* refresh call of this invocation.
LatestGranted ==
    IssuedRecord(IF call.origin = "refresh" THEN issued - 1 ELSE issued,
                 TRUE)["refresh_token"]

\* C14, as stated: the refresh token posted to the provider is the one of
\* the most recent successful authorization or refresh, never an older one.
C14_SentIsLatestGranted ==
    (call.phase # "none" /\ call.sent # None) => call.sent = LatestGranted

\* C14, amended: in every invocation of every run, the refresh token posted
\* to the provider is the refresh_token of the record the credentials file
\* held when the invocation began, and the file still holds that record
\* when the call is made.
C14_SentIsStored ==
    (call.phase # "none" /\ call.sent # None) =>
        /\ Holds(call.entry, call.loaded)
        /\ "refresh_token" \in DOMAIN Load(call.entry.text)
        /\ call.sent = Load(call.entry.text)["refresh_token"]
        /\ call.writes = 0 => file = call.entry

\* A refresh posted the refresh token that an earlier authorization or
\* refresh had obtained and saved.
C14_Witness ==
    /\ call.phase # "none"
    /\ call.sent = IssuedRecord(1, TRUE)["refresh_token"]
    /\ call.refreshCalls = 1

\* ------------------------------------------ one TokenManager, called again

\* A TokenManager of a loaded Config is called for the first time.
ReentryInit ==
    /\ environ \in {e \in Environments :
                        /\ e["STRAVA_CLIENT_ID"] # Unset
                        /\ e["STRAVA_CLIENT_SECRET"] # Unset
                        /\ e["TRMNL_PLUGIN_UUID"] # Unset
                        /\ e["STRAVA_CREDENTIALS"] = Unset}
    /\ file \in {NoFile} \cup {[exists |-> TRUE, text |-> t, mtime |-> 0] : t \in StoredTexts}
    /\ now = 0
    /\ issued = 0
    /\ pc = "get_valid_token"
    /\ config = NewConfig(environ["STRAVA_CLIENT_ID"], environ["STRAVA_CLIENT_SECRET"])
    /\ client = None
    /\ token = None
    /\ buffer = <<>>
    /\ exc = NoExc
    /\ exit = NotRunning
    /\ variables = None
    /\ posts = 0
    /\ call = [NoCall EXCEPT !.phase = "running", !.entry = file, !.caller = "direct"]

\* The hour at which the invocation that has returned did so: when
\* _needs_refresh looked, or when the file was written.
ReturnedAt(c, f) == IF c.origin = "loaded" THEN c.entry.mtime + c.age ELSE f.mtime

\* The caller, having got a token or caught the exception, calls
\* get_valid_token() on the same TokenManager again.
CallAgain ==
    /\ pc \in {"returned", "except"}
    /\ pc' = "get_valid_token"
    /\ exc' = NoExc
    /\ token' = None
    /\ call' = [NoCall EXCEPT
                    !.phase = "running", !.entry = file, !.caller = "direct",
                    !.prev = IF call.phase = "returned" THEN call.result ELSE None,
                    !.prevAt = IF call.phase = "returned" THEN ReturnedAt(call, file)
                                                          ELSE -1]
    /\ UNCHANGED <<environ, file, now, issued, config, client, buffer, exit,
                   variables, posts>>

ReentryNext ==
    \/ CallAgain
    \/ get_valid_token
    \/ perform_oauth_flow
    \/ save_open
    \/ save_dump
    \/ save_close
    \/ load_token
    \/ needs_refresh
    \/ refresh_token
    \/ Tick

ReentrySpec == ReentryInit /\ [][ReentryNext]_vars

\* C15: once get_valid_token has returned, the file holds the record it
\* returned; a call made again in the same hour makes no request to the
\* provider and no write, leaves the file as it is and, when it returns,
\* returns an equal record; a call after a successful one never goes back
\* to the authorization flow, and a refresh call is made only for a record
\* older than the threshold.
C15_ReentrantCycle ==
    /\ call.phase = "returned" => Holds(file, call.result)
    /\ (call.prev # None /\ now = call.prevAt) =>
            /\ call.refreshCalls = 0
            /\ call.exchangeCalls = 0
            /\ call.writes = 0
            /\ file = call.entry
            /\ pc \notin {"oauth", "refresh", "save_open", "save_dump", "save_close"}
            /\ call.phase = "returned" => call.result = call.prev
    /\ call.prev # None =>
            /\ call.entry.exists
            /\ call.exchangeCalls = 0
            /\ pc # "oauth"
    /\ call.refreshCalls > 0 => call.age > token_refresh_hours

\* The record a refresh obtained is returned again by a call made in the
\* same hour.
C15_Witness ==
    /\ call.prev = IssuedRecord(1, FALSE)
    /\ now = call.prevAt
    /\ call.phase = "returned"
    /\ call.result = call.prev
    /\ call.entry.mtime = now

\* ------------------------------------------- one Strava object, read again

\* Strava(config) of a loaded Config; get_summary reads the client.
ClientInit ==
    /\ environ \in {e \in Environments :
                        /\ e["STRAVA_CLIENT_ID"] # Unset
                        /\ e["STRAVA_CLIENT_SECRET"] # Unset
                        /\ e["TRMNL_PLUGIN_UUID"] # Unset
                        /\ e["STRAVA_CREDENTIALS"] = Unset}
    /\ file \in {NoFile} \cup {[exists |-> TRUE, text |-> t, mtime |-> 0] : t \in StoredTexts}
    /\ now = 0
    /\ issued = 0
    /\ pc = "get_athlete_stats"
    /\ config = NewConfig(environ["STRAVA_CLIENT_ID"], environ["STRAVA_CLIENT_SECRET"])
    /\ client = None
    /\ token = None
    /\ buffer = <<>>
    /\ exc = NoExc
    /\ exit = NotRunning
    /\ variables = None
    /\ posts = 0
    /\ call = NoCall

\* Invocations of get_valid_token by this Strava object that have returned.
Successes == call.earlier + (IF call.phase = "returned" THEN 1 ELSE 0)

\* The caller, having got the client or caught the exception, reads
\* self.client of the same Strava object again.
Access ==
    /\ pc \in {"stats_request", "activities_request", "except"}
    /\ Successes < MaxEarlier
    /\ \E method \in {"get_athlete_stats", "get_activities"} : pc' = method
    /\ exc' = NoExc
    /\ token' = None
    /\ UNCHANGED <<environ, file, now, issued, config, client, buffer, exit,
                   variables, posts, call>>

ClientNext ==
    \/ Access
    \/ client_property
    \/ client_set
    \/ get_valid_token
    \/ perform_oauth_flow
    \/ save_open
    \/ save_dump
    \/ save_close
    \/ load_token
    \/ needs_refresh
    \/ refresh_token
    \/ Tick

ClientSpec == ClientInit /\ [][ClientNext]_vars

\* C16 as stated: over the accesses to the client of one Strava object,
\* get_valid_token returns a record at most once.
C16_AtMostOneSuccess == Successes <= 1

\* The client that Client(access_token=str(token["access_token"])) builds
\* from the record the invocation returned.
ClientOf(rec) == [access_token |-> rec["access_token"]]

\* C16: the holder is unset while get_valid_token runs and after it has
\* failed; a holder that is set holds the client built from the record the
\* last invocation returned; an invocation that returned and left the holder
\* unset returned a record without an access token; a set holder is never
\* assigned again; get_valid_token returns only while the holder is unset;
\* reading the client calls get_valid_token when the holder is unset and
\* hands out the holder, calling nothing, when it is set.
C16_LazyClient ==
    /\ [](call.phase \in {"running", "raised"} => client = None)
    /\ [](client # None =>
            /\ call.phase = "returned"
            /\ "access_token" \in DOMAIN call.result
            /\ client = ClientOf(call.result))
    /\ []((client = None /\ call.phase = "returned" /\ pc # "returned") =>
            "access_token" \notin DOMAIN call.result)
    /\ [][client # None => client' = client]_vars
    /\ [][(call.phase # "returned" /\ call'.phase = "returned") => client = None]_vars
    /\ [][(pc \in {"get_athlete_stats", "get_activities"} /\ pc' # pc) =>
            IF client = None
            THEN pc' = "get_valid_token" /\ call'.phase = "running"
            ELSE /\ pc' \in {"stats_request", "activities_request"}
                 /\ call' = call
                 /\ client' = client]_vars

\* After a failed invocation the client is read again, get_valid_token
\* returns a record, and the holder is set from it.
C16_Witness ==
    /\ call.earlier = 0
    /\ call.phase = "returned"
    /\ call.caller = "get_activities"
    /\ "access_token" \in DOMAIN call.result
    /\ client = ClientOf(call.result)
    /\ pc = "activities_request"

\* ------------------------------------------------- the authorization flow

\* C17: when the authorization flow fails, get_valid_token fails with
\* AuthError, nothing has been written, and the credentials file is still
\* absent.
C17_OAuthFailureIsAuthError ==
    call.failed = "oauth" =>
        /\ exc.type = "AuthError"
        /\ call.writes = 0
        /\ file = call.entry
        /\ ~file.exists

\* ----------------------------------------------------- the CI bootstrap

\* The run has CI and STRAVA_CREDENTIALS set.
Seeded == Truthy(environ, "CI") /\ Truthy(environ, "STRAVA_CREDENTIALS")

\* The record in the STRAVA_CREDENTIALS variable.
SeedRecord == Load(EnvText(environ["STRAVA_CREDENTIALS"]))

\* C18 as stated: in a run with CI and STRAVA_CREDENTIALS set,
\* get_valid_token performs neither the authorization flow nor a refresh and
\* returns the record of the variable.
C18_SeededRunNeverRefreshes ==
    (Seeded /\ call.phase # "none") =>
        /\ call.exchangeCalls = 0
        /\ call.refreshCalls = 0
        /\ pc \notin {"oauth", "refresh"}
        /\ call.phase = "returned" => call.result = SeedRecord

\* C18: with CI and STRAVA_CREDENTIALS set, the start of the process
\* replaces the credentials file by the variable's value, written at that
\* hour; get_valid_token of that run finds that file, never takes the
\* authorization flow, measures the age from the start of the process,
\* and while no more than token_refresh_hours have passed since then it
\* makes no refresh and no write and returns, if it returns, the record of
\* the variable; it refreshes only when more have passed.
C18_BootstrapSeedsFreshRecord ==
    /\ [][(pc = "boot" /\ pc' = "main" /\ Seeded) =>
            file' = [exists |-> TRUE,
                     text |-> EnvText(environ["STRAVA_CREDENTIALS"]),
                     mtime |-> now]]_vars
    /\ []((Seeded /\ call.phase # "none") =>
            /\ call.entry.exists
            /\ call.entry.text = EnvText(environ["STRAVA_CREDENTIALS"])
            /\ call.entry.mtime <= now
            /\ call.exchangeCalls = 0
            /\ pc # "oauth"
            /\ call.age # -1 => call.age <= now - call.entry.mtime
            /\ (call.age # -1 /\ call.age <= token_refresh_hours) =>
                    /\ call.refreshCalls = 0
                    /\ call.writes = 0
                    /\ file = call.entry
                    /\ pc # "refresh"
                    /\ call.phase = "returned" => call.result = SeedRecord
            /\ (call.refreshCalls > 0 \/ pc = "refresh") =>
                    call.age > token_refresh_hours)

\* A run in CI starts after the provider has issued newer records and hours
\* have passed; it returns the record of the variable, of age zero.
C18_Witness ==
    /\ Seeded
    /\ issued >= 1
    /\ now > token_refresh_hours
    /\ call.phase = "returned"
    /\ call.age = 0
    /\ call.refreshCalls = 0
    /\ call.result = SeedRecord

====
